---- MODULE Spec2Model ----
(***************************************************************************)
(* Model of "Fix Unpurgable Viewport Types" (script.py): the script asks   *)
(* for viewport types to purge and a replacement type, discovers the       *)
(* elements linked to each purge type by a trial delete in a rolled-back   *)
(* transaction, then reassigns viewports in two transactions inside one    *)
(* transaction group.                                                      *)
(*                                                                         *)
(* The Revit document is modelled as a record                              *)
(*   [types  : the set of ElementType ids that exist,                      *)
(*    typeOf : a function from the Viewport ids that exist to type ids].   *)
(* Display names are small integers ordered like the strings they stand    *)
(* for.                                                                    *)
(***************************************************************************)
EXTENDS Integers, Sequences, FiniteSets, TLC

\* ------------------------------------------------------------------ bounds
NumTypes == 3
NumInsts == 2
NumNames == 2

\* --------------------------------------------------------------- universe
ViewportTypeIds == 1..NumTypes
\* an ElementType of another family, present in every document
OtherTypeId == 0
AllTypeIds == ViewportTypeIds \cup {OtherTypeId}
\* Viewport element ids, disjoint from the type ids
InstIds == {NumTypes + i : i \in 1..NumInsts}
Names == 1..NumNames
NoId == -1

VARIABLES
    doc,                \* the live document: [types, typeOf]
    doc0,               \* the document at run start (never changes)
    typeName,           \* Element.Name of every element type
    visible,            \* the Viewports a FilteredElementCollector returns
    pc,                 \* position of the script
    abortCause,         \* the exception that ended the script, or "none"
    all_viewport_types, \* line 54
    purge_vp_types,     \* line 59
    dest_vp_types,      \* line 68
    dest_vp_typeid,     \* line 72
    purge_dict,         \* line 80: name -> linked element ids
    probeIdx,           \* position of the loop of line 81
    purge_vp_type,      \* loop variable of line 81 (last probed type)
    linked_elements,    \* lines 84 and 116
    openTx,             \* Transactions started and not yet closed
    tgOpen,             \* the TransactionGroup is started and not closed
    all_viewports,      \* line 97
    vpIdx,              \* position of the loop of line 101
    p2_keys,            \* purge_dict keys still to iterate (line 116)
    vp_type_name,       \* loop variable of line 116
    p2_items,           \* linked ids still to iterate (line 119)
    inKey,              \* inside the body of the loop of line 116
    has_error,          \* line 117
    warned,             \* names for which line 129 logged the warning
    log                 \* the logger.debug lines of the reassignment attempts

vars == <<doc, doc0, typeName, visible, pc, abortCause, all_viewport_types,
          purge_vp_types, dest_vp_types, dest_vp_typeid, purge_dict, probeIdx,
          purge_vp_type, linked_elements, openTx, tgOpen, all_viewports, vpIdx,
          p2_keys, vp_type_name, p2_items, inKey, has_error, warned, log>>

storeVars == <<doc0, typeName, visible>>
selVars == <<all_viewport_types, purge_vp_types, dest_vp_types, dest_vp_typeid>>
probeVars == <<purge_dict, probeIdx, purge_vp_type, linked_elements>>
p1Vars == <<all_viewports, vpIdx>>
p2Vars == <<p2_keys, vp_type_name, p2_items, inKey, has_error, warned>>

\* ---------------------------------------------------------------- helpers
Range(s) == {s[i] : i \in 1..Len(s)}

\* ascending sequence of a finite set of integers
RECURSIVE SetToSeq(_)
SetToSeq(S) ==
    IF S = {} THEN <<>>
    ELSE LET m == CHOOSE x \in S : \A y \in S : x <= y
         IN <<m>> \o SetToSeq(S \ {m})

\* x.FamilyName
FamilyName(t) == IF t \in ViewportTypeIds THEN "Viewport" ELSE "Other"

\* mutant: the types are compared by id instead of by name
Lt_ById(a, b) == a < b

\* ViewPortType.__lt__: str(self) < str(other)
Lt(a, b) == typeName[a] < typeName[b]

\* sorted(seq): a stable sort with __lt__ (insertion of each element after
\* the last element that is not greater than it)
RECURSIVE Insert(_, _)
Insert(s, x) ==
    IF s = <<>> THEN <<x>>
    ELSE IF Lt(x, Head(s)) THEN <<x>> \o s
    ELSE <<Head(s)>> \o Insert(Tail(s), x)

RECURSIVE sorted(_)
sorted(s) ==
    IF s = <<>> THEN <<>>
    ELSE Insert(sorted(SubSeq(s, 1, Len(s) - 1)), s[Len(s)])

\* Fec(doc).OfClass(ElementType).ToElements(), in id order
all_element_types(d) == SetToSeq(d.types)

\* Fec(doc).OfClass(Viewport).ToElements(), in id order
VisibleViewports(d) == SetToSeq({i \in DOMAIN d.typeOf : visible[i]})

\* doc.GetElement(id): the class of the element the id resolves to
GetElement(d, id) ==
    IF id \in DOMAIN d.typeOf THEN "Viewport"
    ELSE IF id \in d.types THEN "ElementType"
    ELSE "None"

\* doc.Delete(id): the document without the type and the elements that
\* depend on it (all Viewports of that type, visible or hidden)
Delete(d, t) ==
    [types  |-> d.types \ {t},
     typeOf |-> [i \in {j \in DOMAIN d.typeOf : d.typeOf[j] # t} |-> d.typeOf[i]]]

\* the ids doc.Delete returns: every element the deletion removed
DeletedIds(d, t) ==
    (d.types \cup DOMAIN d.typeOf) \ (Delete(d, t).types \cup DOMAIN Delete(d, t).typeOf)

\* mutant: the trial delete is kept instead of undone
RollBack_Keep(snapshot, current) == current

\* Transaction.RollBack(): the document as it was at Start()
RollBack(snapshot, current) == snapshot

\* ViewPortType.find_linked_elements when doc.Delete does not raise:
\* the returned ids and the document left behind
find_linked_elements(d, t) ==
    LET snapshot == d                     \* t.Start()
        after == Delete(d, t)             \* doc.Delete(self._rvt_type.Id)
    IN [ids |-> DeletedIds(d, t),
        doc |-> RollBack(snapshot, after)] \* t.RollBack()

\* mutant: the call returns without changing the type
ChangeTypeId_NoOp(d, i, new) == d

\* mutant: the viewport is given another type than the one passed
ChangeTypeId_ToOther(d, i, new) == [d EXCEPT !.typeOf[i] = OtherTypeId]

\* vp.ChangeTypeId(new) when it does not raise
ChangeTypeId(d, i, new) == [d EXCEPT !.typeOf[i] = new]

\* purge_vp_ids, line 98
purge_vp_ids == Range(purge_vp_types)

\* SelectFromList.show: the selected candidates, in list order
Selected(cands, S) == SelectSeq(cands, LAMBDA x : x \in S)

\* mutant: the purge types are not taken out of the candidates
ReplacementCandidates_Unfiltered == sorted(all_viewport_types)

\* candidates of the second selection, line 68
ReplacementCandidates ==
    sorted(SelectSeq(all_viewport_types, LAMBDA x : x \notin Range(purge_vp_types)))

\* ------------------------------------------------------------------- Init
\* Viewports differ only by id, and name codes only by their order: documents
\* are enumerated up to a renumbering of the viewports (ids ascending by type,
\* hidden before visible) and with the name codes in use forming 1..k.
Canonical(tn, ty, vis) ==
    /\ \A n \in Names : n > 1 /\ (\E t \in ViewportTypeIds : tn[t] = n)
                            => \E t \in ViewportTypeIds : tn[t] = n - 1
    /\ \A i, j \in InstIds :
          i < j => \/ ty[i] < ty[j]
                   \/ ty[i] = ty[j] /\ (vis[i] => vis[j])

Init ==
    /\ \E tn \in [ViewportTypeIds -> Names], ty \in [InstIds -> ViewportTypeIds],
          vis \in [InstIds -> BOOLEAN] :
          /\ Canonical(tn, ty, vis)
          /\ typeName = [t \in AllTypeIds |-> IF t = OtherTypeId THEN 1 ELSE tn[t]]
          /\ doc = [types |-> AllTypeIds, typeOf |-> ty]
          /\ visible = vis
    /\ doc0 = doc
    /\ pc = "Idle"
    /\ abortCause = "none"
    /\ all_viewport_types = <<>>
    /\ purge_vp_types = <<>>
    /\ dest_vp_types = <<>>
    /\ dest_vp_typeid = NoId
    /\ purge_dict = [n \in {} |-> {}]
    /\ probeIdx = 1
    /\ purge_vp_type = NoId
    /\ linked_elements = {}
    /\ openTx = {}
    /\ tgOpen = FALSE
    /\ all_viewports = <<>>
    /\ vpIdx = 1
    /\ p2_keys = <<>>
    /\ vp_type_name = NoId
    /\ p2_items = <<>>
    /\ inKey = FALSE
    /\ has_error = FALSE
    /\ warned = {}
    /\ log = {}

\* ---------------------------------------------------------------- actions
\* lines 53-54
CollectTypes ==
    /\ pc = "Idle"
    /\ all_viewport_types' =
          SelectSeq(all_element_types(doc), LAMBDA x : FamilyName(x) = "Viewport")
    /\ pc' = "TypesCollected"
    /\ UNCHANGED <<doc, storeVars, abortCause, purge_vp_types, dest_vp_types,
                   dest_vp_typeid, probeVars, openTx, tgOpen, p1Vars, p2Vars, log>>

\* mutant: the script goes on with an empty selection
PurgeCancelled_Never(selection) == FALSE

\* line 61: not purge_vp_types
PurgeCancelled(selection) == Len(selection) = 0

\* lines 59-62
SelectPurge ==
    /\ pc = "TypesCollected"
    /\ \E S \in SUBSET Range(all_viewport_types) :
          purge_vp_types' = Selected(sorted(all_viewport_types), S)
    /\ pc' = IF PurgeCancelled(purge_vp_types') THEN "Cancelled" ELSE "PurgeSelected"
    /\ UNCHANGED <<doc, storeVars, abortCause, all_viewport_types, dest_vp_types,
                   dest_vp_typeid, probeVars, openTx, tgOpen, p1Vars, p2Vars, log>>

\* lines 68-74
SelectReplacement ==
    /\ pc = "PurgeSelected"
    /\ \E S \in {X \in SUBSET Range(ReplacementCandidates) : Cardinality(X) <= 1} :
          dest_vp_types' = Selected(ReplacementCandidates, S)
    /\ IF Len(dest_vp_types') >= 1
       THEN /\ dest_vp_typeid' = dest_vp_types'[1]
            /\ pc' = "PlanBuilt"
       ELSE /\ dest_vp_typeid' = dest_vp_typeid
            /\ pc' = "Cancelled"
    /\ UNCHANGED <<doc, storeVars, abortCause, all_viewport_types, purge_vp_types,
                   probeVars, openTx, tgOpen, p1Vars, p2Vars, log>>

\* lines 81-86, one iteration in which doc.Delete returns
ProbeOk ==
    /\ pc = "PlanBuilt"
    /\ probeIdx <= Len(purge_vp_types)
    /\ LET t == purge_vp_types[probeIdx]
           r == find_linked_elements(doc, t)
       IN /\ doc' = r.doc
          /\ purge_vp_type' = t
          /\ linked_elements' = r.ids
          /\ purge_dict' = [n \in DOMAIN purge_dict \cup {typeName[t]} |->
                               IF n = typeName[t] THEN r.ids ELSE purge_dict[n]]
    /\ probeIdx' = probeIdx + 1
    /\ UNCHANGED <<storeVars, pc, abortCause, selVars, openTx, tgOpen, p1Vars,
                   p2Vars, log>>

\* mutant: the exception of the probe is caught and the loop goes on
ProbeRaises_Swallowed ==
    /\ pc = "PlanBuilt"
    /\ probeIdx <= Len(purge_vp_types)
    /\ purge_vp_type' = purge_vp_types[probeIdx]
    /\ openTx' = openTx \cup {"probe"}
    /\ abortCause' = "ProbeFailure"
    /\ probeIdx' = probeIdx + 1
    /\ UNCHANGED <<doc, storeVars, pc, selVars, purge_dict, linked_elements,
                   tgOpen, p1Vars, p2Vars, log>>

\* lines 81-84 and 44-46, one iteration in which doc.Delete raises: the
\* exception leaves find_linked_elements before t.RollBack() and ends the
\* script; a failed Delete removes nothing
ProbeRaises ==
    /\ pc = "PlanBuilt"
    /\ probeIdx <= Len(purge_vp_types)
    /\ purge_vp_type' = purge_vp_types[probeIdx]
    /\ openTx' = openTx \cup {"probe"}
    /\ pc' = "Aborted"
    /\ abortCause' = "ProbeFailure"
    /\ UNCHANGED <<doc, storeVars, selVars, purge_dict, probeIdx, linked_elements,
                   tgOpen, p1Vars, p2Vars, log>>

\* mutant: the loop of line 81 is left after its first iteration
ProbesDone_Early ==
    /\ pc = "PlanBuilt"
    /\ probeIdx > 1
    /\ pc' = "Probed"
    /\ UNCHANGED <<doc, storeVars, abortCause, selVars, probeVars, openTx, tgOpen,
                   p1Vars, p2Vars, log>>

\* the loop of line 81 is exhausted
ProbesDone ==
    /\ pc = "PlanBuilt"
    /\ probeIdx > Len(purge_vp_types)
    /\ pc' = "Probed"
    /\ UNCHANGED <<doc, storeVars, abortCause, selVars, probeVars, openTx, tgOpen,
                   p1Vars, p2Vars, log>>

\* mutant: tg.Start() is left out
StartGroup_Skipped ==
    /\ pc = "Probed"
    /\ pc' = "GroupStarted"
    /\ UNCHANGED <<doc, storeVars, abortCause, selVars, probeVars, openTx, tgOpen,
                   p1Vars, p2Vars, log>>

\* lines 90-91
StartGroup ==
    /\ pc = "Probed"
    /\ tgOpen' = TRUE
    /\ pc' = "GroupStarted"
    /\ UNCHANGED <<doc, storeVars, abortCause, selVars, probeVars, openTx, p1Vars,
                   p2Vars, log>>

\* lines 97-100
StartT1 ==
    /\ pc = "GroupStarted"
    /\ all_viewports' = VisibleViewports(doc)
    /\ vpIdx' = 1
    /\ openTx' = openTx \cup {"t1"}
    /\ pc' = "Phase1"
    /\ UNCHANGED <<doc, storeVars, abortCause, selVars, probeVars, tgOpen, p2Vars,
                   log>>

\* the log line of an attempt: phase, purge_dict key (phase 2), element id,
\* whether ChangeTypeId raised
LogEntry(phase, key, id, err) == [phase |-> phase, key |-> key, id |-> id, err |-> err]

\* mutant: the type of the viewport is not checked before the change
Phase1Skip_Changes ==
    /\ pc = "Phase1"
    /\ vpIdx <= Len(all_viewports)
    /\ doc.typeOf[all_viewports[vpIdx]] \notin purge_vp_ids
    /\ doc' = ChangeTypeId(doc, all_viewports[vpIdx], dest_vp_typeid)
    /\ log' = log \cup {LogEntry(1, NoId, all_viewports[vpIdx], FALSE)}
    /\ vpIdx' = vpIdx + 1
    /\ UNCHANGED <<storeVars, pc, abortCause, selVars, probeVars, openTx, tgOpen,
                   all_viewports, p2Vars>>

\* lines 101-102, the viewport is not of a purge type
Phase1Skip ==
    /\ pc = "Phase1"
    /\ vpIdx <= Len(all_viewports)
    /\ doc.typeOf[all_viewports[vpIdx]] \notin purge_vp_ids
    /\ vpIdx' = vpIdx + 1
    /\ UNCHANGED <<doc, storeVars, pc, abortCause, selVars, probeVars, openTx,
                   tgOpen, all_viewports, p2Vars, log>>

\* lines 101-106, ChangeTypeId returns
Phase1Change ==
    /\ pc = "Phase1"
    /\ vpIdx <= Len(all_viewports)
    /\ doc.typeOf[all_viewports[vpIdx]] \in purge_vp_ids
    /\ doc' = ChangeTypeId(doc, all_viewports[vpIdx], dest_vp_typeid)
    /\ log' = log \cup {LogEntry(1, NoId, all_viewports[vpIdx], FALSE)}
    /\ vpIdx' = vpIdx + 1
    /\ UNCHANGED <<storeVars, pc, abortCause, selVars, probeVars, openTx, tgOpen,
                   all_viewports, p2Vars>>

\* mutant: the phase 1 handler also reports the error for the type's name
Phase1ChangeRaises_Warns ==
    /\ pc = "Phase1"
    /\ vpIdx <= Len(all_viewports)
    /\ doc.typeOf[all_viewports[vpIdx]] \in purge_vp_ids
    /\ log' = log \cup {LogEntry(1, NoId, all_viewports[vpIdx], TRUE)}
    /\ warned' = warned \cup {typeName[doc.typeOf[all_viewports[vpIdx]]]}
    /\ vpIdx' = vpIdx + 1
    /\ UNCHANGED <<doc, storeVars, pc, abortCause, selVars, probeVars, openTx,
                   tgOpen, all_viewports, p2_keys, vp_type_name, p2_items, inKey,
                   has_error>>

\* lines 101-108, ChangeTypeId raises: logged, the viewport keeps its type
Phase1ChangeRaises ==
    /\ pc = "Phase1"
    /\ vpIdx <= Len(all_viewports)
    /\ doc.typeOf[all_viewports[vpIdx]] \in purge_vp_ids
    /\ log' = log \cup {LogEntry(1, NoId, all_viewports[vpIdx], TRUE)}
    /\ vpIdx' = vpIdx + 1
    /\ UNCHANGED <<doc, storeVars, pc, abortCause, selVars, probeVars, openTx,
                   tgOpen, all_viewports, p2Vars>>

\* line 109
T1Commit ==
    /\ pc = "Phase1"
    /\ vpIdx > Len(all_viewports)
    /\ openTx' = openTx \ {"t1"}
    /\ pc' = "Phase1Committed"
    /\ UNCHANGED <<doc, storeVars, abortCause, selVars, probeVars, tgOpen, p1Vars,
                   p2Vars, log>>

\* line 109, the commit raises: the exception ends the script
T1CommitRaises ==
    /\ pc = "Phase1"
    /\ vpIdx > Len(all_viewports)
    /\ pc' = "Aborted"
    /\ abortCause' = "TransactionCommitFailure"
    /\ UNCHANGED <<doc, storeVars, selVars, probeVars, openTx, tgOpen, p1Vars,
                   p2Vars, log>>

\* The loops of lines 116 and 119 as a record: the names still to iterate,
\* the current name, its linked ids still to iterate, whether the body of the
\* outer loop is active, has_error and the names warned about.
LoopState(keys, name, linked, items, active, herr, w) ==
    [keys |-> keys, name |-> name, linked |-> linked, items |-> items,
     inKey |-> active, has_error |-> herr, warned |-> w]

\* lines 128-130, after the last linked id of the current name
Phase2EndKey(st) ==
    [st EXCEPT !.warned = IF st.has_error THEN @ \cup {st.name} ELSE @,
               !.inKey = FALSE]

\* lines 116-118, the next (name, linked ids) pair of purge_dict: the for
\* statement binds vp_type_name and rebinds linked_elements; each collection
\* of linked ids is iterated by ascending id
Phase2NextKey(st) ==
    [st EXCEPT !.name = Head(st.keys),
               !.linked = purge_dict[Head(st.keys)],
               !.items = SetToSeq(purge_dict[Head(st.keys)]),
               !.keys = Tail(st.keys),
               !.has_error = FALSE,
               !.inKey = TRUE]

\* the loop control up to the next linked id, or to the end of both loops
RECURSIVE NextItem(_)
NextItem(st) ==
    IF st.inKey /\ st.items # <<>> THEN st
    ELSE IF st.inKey THEN NextItem(Phase2EndKey(st))
    ELSE IF st.keys # <<>> THEN NextItem(Phase2NextKey(st))
    ELSE st

\* the loop variables of TRANSACTION 2 take the values of a loop record
SetLoop(st) ==
    /\ p2_keys' = st.keys
    /\ vp_type_name' = st.name
    /\ linked_elements' = st.linked
    /\ p2_items' = st.items
    /\ inKey' = st.inKey
    /\ has_error' = st.has_error
    /\ warned' = st.warned

\* line 116, purge_dict.items(): purge_dict is a plain dict, whose iteration
\* order the language leaves unspecified; every order of its keys is possible
RECURSIVE KeyOrders(_)
KeyOrders(S) ==
    IF S = {} THEN {<<>>}
    ELSE UNION {{<<k>> \o rest : rest \in KeyOrders(S \ {k})} : k \in S}

\* lines 114-119, up to the first linked id
StartT2 ==
    /\ pc = "Phase1Committed"
    /\ openTx' = openTx \cup {"t2"}
    /\ \E keys \in KeyOrders(DOMAIN purge_dict) :
          SetLoop(NextItem(LoopState(keys, vp_type_name, linked_elements, <<>>,
                                     FALSE, has_error, warned)))
    /\ pc' = "Phase2"
    /\ UNCHANGED <<doc, storeVars, abortCause, selVars, purge_dict, probeIdx,
                   purge_vp_type, tgOpen, p1Vars, log>>

\* mutant: the type of the resolved Viewport is not checked again
IsPurgeViewport_NoRecheck(d, id) == GetElement(d, id) = "Viewport"

\* line 122: the linked id resolves to a Viewport that is still of a purge type
IsPurgeViewport(d, id) ==
    /\ GetElement(d, id) = "Viewport"
    /\ d.typeOf[id] \in purge_vp_ids

\* lines 119-122, the condition of line 122 is false: nothing is attempted
Phase2Skip ==
    /\ pc = "Phase2"
    /\ inKey
    /\ p2_items # <<>>
    /\ ~IsPurgeViewport(doc, Head(p2_items))
    /\ SetLoop(NextItem(LoopState(p2_keys, vp_type_name, linked_elements,
                                  Tail(p2_items), inKey, has_error, warned)))
    /\ UNCHANGED <<doc, storeVars, pc, abortCause, selVars, purge_dict, probeIdx,
                   purge_vp_type, openTx, tgOpen, p1Vars, log>>

\* lines 119-124, ChangeTypeId returns
Phase2Change ==
    /\ pc = "Phase2"
    /\ inKey
    /\ p2_items # <<>>
    /\ IsPurgeViewport(doc, Head(p2_items))
    /\ doc' = ChangeTypeId(doc, Head(p2_items), dest_vp_typeid)
    /\ log' = log \cup {LogEntry(2, vp_type_name, Head(p2_items), FALSE)}
    /\ SetLoop(NextItem(LoopState(p2_keys, vp_type_name, linked_elements,
                                  Tail(p2_items), inKey, has_error, warned)))
    /\ UNCHANGED <<storeVars, pc, abortCause, selVars, purge_dict, probeIdx,
                   purge_vp_type, openTx, tgOpen, p1Vars>>

\* mutant: no try/except around the call, the exception ends the script
Phase2ChangeRaises_Propagates ==
    /\ pc = "Phase2"
    /\ inKey
    /\ p2_items # <<>>
    /\ IsPurgeViewport(doc, Head(p2_items))
    /\ log' = log \cup {LogEntry(2, vp_type_name, Head(p2_items), TRUE)}
    /\ pc' = "Aborted"
    /\ abortCause' = "PerInstanceReassignFailure"
    /\ UNCHANGED <<doc, storeVars, selVars, probeVars, openTx, tgOpen, p1Vars,
                   p2Vars>>

\* lines 119-127, ChangeTypeId raises: has_error is set, the loop goes on
Phase2ChangeRaises ==
    /\ pc = "Phase2"
    /\ inKey
    /\ p2_items # <<>>
    /\ IsPurgeViewport(doc, Head(p2_items))
    /\ log' = log \cup {LogEntry(2, vp_type_name, Head(p2_items), TRUE)}
    /\ SetLoop(NextItem(LoopState(p2_keys, vp_type_name, linked_elements,
                                  Tail(p2_items), inKey, TRUE, warned)))
    /\ UNCHANGED <<doc, storeVars, pc, abortCause, selVars, purge_dict, probeIdx,
                   purge_vp_type, openTx, tgOpen, p1Vars>>

\* line 132
T2Commit ==
    /\ pc = "Phase2"
    /\ ~inKey
    /\ p2_keys = <<>>
    /\ openTx' = openTx \ {"t2"}
    /\ pc' = "Phase2Committed"
    /\ UNCHANGED <<doc, storeVars, abortCause, selVars, probeVars, tgOpen, p1Vars,
                   p2Vars, log>>

\* line 132, the commit raises: the exception ends the script
T2CommitRaises ==
    /\ pc = "Phase2"
    /\ ~inKey
    /\ p2_keys = <<>>
    /\ pc' = "Aborted"
    /\ abortCause' = "TransactionCommitFailure"
    /\ UNCHANGED <<doc, storeVars, selVars, probeVars, openTx, tgOpen, p1Vars,
                   p2Vars, log>>

\* doc.Delete of every type of a sequence, in order
RECURSIVE DeleteAll(_, _)
DeleteAll(d, ts) == IF ts = <<>> THEN d ELSE DeleteAll(Delete(d, Head(ts)), Tail(ts))

\* mutant: TRANSACTION 3 is active and removes the purge types
Transaction3_Enabled(d) == DeleteAll(d, purge_vp_types)

\* lines 135-147: TRANSACTION 3 is commented out, the purge types stay
Transaction3(d) == d

\* lines 135-149
TgCommit ==
    /\ pc = "Phase2Committed"
    /\ doc' = Transaction3(doc)
    /\ tgOpen' = FALSE
    /\ pc' = "Done"
    /\ UNCHANGED <<storeVars, abortCause, selVars, probeVars, openTx, p1Vars,
                   p2Vars, log>>

\* line 149, the commit raises: the exception ends the script
TgCommitRaises ==
    /\ pc = "Phase2Committed"
    /\ pc' = "Aborted"
    /\ abortCause' = "TransactionCommitFailure"
    /\ UNCHANGED <<doc, storeVars, selVars, probeVars, openTx, tgOpen, p1Vars,
                   p2Vars, log>>

Next ==
    \/ CollectTypes
    \/ SelectPurge
    \/ SelectReplacement
    \/ ProbeOk
    \/ ProbeRaises
    \/ ProbesDone
    \/ StartGroup
    \/ StartT1
    \/ Phase1Skip
    \/ Phase1Change
    \/ Phase1ChangeRaises
    \/ T1Commit
    \/ T1CommitRaises
    \/ StartT2
    \/ Phase2Skip
    \/ Phase2Change
    \/ Phase2ChangeRaises
    \/ T2Commit
    \/ T2CommitRaises
    \/ TgCommit
    \/ TgCommitRaises

Spec == Init /\ [][Next]_vars

\* -------------------------------------------------------------- properties
Viewports == DOMAIN doc.typeOf

\* the ids of every probe result purge_dict still holds
Retained == UNION {purge_dict[n] : n \in DOMAIN purge_dict}

\* log entries of the attempts made on element id
Attempts(id) == {e \in log : e.id = id}

\* the script is between its first probe and TRANSACTION 1
BetweenProbes ==
    /\ purge_vp_type # NoId
    /\ pc \in {"PlanBuilt", "Probed", "GroupStarted"}

\* C1 as stated: at Done no viewport, visible or hidden, is of a purge type.
C1_Original ==
    pc = "Done" => \A i \in Viewports : doc.typeOf[i] \notin purge_vp_ids

\* C1 amended: at Done every viewport on which an attempt succeeded is of the
\* replacement type, and a viewport is still of a purge type only if every
\* attempt made on it raised (it was attempted in phase 1 when visible and in
\* phase 2 when a retained probe result holds it) or it is hidden and in no
\* retained probe result.
C1_Amended ==
    pc = "Done" =>
        \A i \in Viewports :
            /\ (\E e \in Attempts(i) : ~e.err) => doc.typeOf[i] = dest_vp_typeid
            /\ doc.typeOf[i] \in purge_vp_ids =>
                  /\ \A e \in Attempts(i) : e.err
                  /\ visible[i] => \E e \in Attempts(i) : e.phase = 1
                  /\ i \in Retained => \E e \in Attempts(i) : e.phase = 2
                  /\ visible[i] \/ i \in Retained \/
                        \E t \in purge_vp_ids \ {doc.typeOf[i]} :
                            typeName[t] = typeName[doc.typeOf[i]]

\* C1 witness: a finished run that reassigned a visible and a hidden viewport
\* and left a viewport whose attempts raised on its purge type.
C1_Witness ==
    /\ pc = "Done"
    /\ \E i \in Viewports : doc.typeOf[i] \in purge_vp_ids /\ Attempts(i) # {}
    /\ \E i \in Viewports :
          /\ ~visible[i]
          /\ doc0.typeOf[i] \in purge_vp_ids
          /\ doc.typeOf[i] = dest_vp_typeid

\* C2 as stated: after any probe, returned or raised, the document equals the
\* document before the probe and no probe transaction is open.
C2_Original ==
    (BetweenProbes \/ abortCause = "ProbeFailure") =>
        /\ doc = doc0
        /\ "probe" \notin openTx

\* C3: an empty selection ends the run at Cancelled with the document
\* unchanged, no transaction or group started, no probe run, no attempt made.
C3_CancelUntouched ==
    ((pc \notin {"Idle", "TypesCollected"} /\ purge_vp_types = <<>>)
        \/ (pc \notin {"Idle", "TypesCollected", "PurgeSelected"} /\ dest_vp_types = <<>>))
    => /\ pc = "Cancelled"
       /\ doc = doc0
       /\ openTx = {}
       /\ ~tgOpen
       /\ purge_vp_type = NoId
       /\ DOMAIN purge_dict = {}
       /\ log = {}

\* C3 witness: the purge types were chosen and the replacement selection came
\* back empty.
C3_Witness ==
    /\ pc = "Cancelled"
    /\ purge_vp_types # <<>>
    /\ dest_vp_types = <<>>
    /\ ReplacementCandidates # <<>>

\* C4 as stated: when a phase 1 attempt raised, the finished run reports
\* hadErrors for the name of the viewport's original purge type.
C4_Original ==
    pc = "Done" =>
        \A e \in log :
            (e.phase = 1 /\ e.err) => typeName[doc0.typeOf[e.id]] \in warned

\* C4 amended: a phase 1 error is only logged; it neither ends the run nor
\* sets hadErrors. hadErrors is reported for a name only when a phase 2
\* attempt iterated under that name raised, so the original type of a viewport
\* that failed in phase 1 is reported exactly when such a phase 2 attempt
\* (for instance the retry on the same viewport) raised as well.
C4_Amended ==
    /\ \A n \in warned : \E e \in log : e.phase = 2 /\ e.key = n /\ e.err
    /\ (\E e \in log : e.phase = 1 /\ e.err) =>
          /\ pc \in {"Phase1", "Phase1Committed", "Phase2", "Phase2Committed",
                     "Done", "Aborted"}
          /\ pc = "Aborted" => abortCause = "TransactionCommitFailure"
    /\ pc = "Done" =>
          \A e \in log :
              (e.phase = 1 /\ e.err) =>
                  (typeName[doc0.typeOf[e.id]] \in warned
                      <=> \E f \in log : /\ f.phase = 2
                                         /\ f.key = typeName[doc0.typeOf[e.id]]
                                         /\ f.err)

\* C4 witness: a finished run in which a phase 1 attempt raised, the phase 2
\* retry on the same viewport succeeded and the type is reported ok.
C4_Witness ==
    /\ pc = "Done"
    /\ \E e \in log :
          /\ e.phase = 1
          /\ e.err
          /\ typeName[doc0.typeOf[e.id]] \notin warned
          /\ \E f \in log : f.phase = 2 /\ f.id = e.id /\ ~f.err

\* C5: a raised attempt never ends a phase. The script aborts only on a probe
\* or commit failure; once a phase has committed every matching viewport has
\* been attempted; a viewport whose attempts all raised keeps its original
\* type; at Done both transactions and the group are closed.
C5_FailuresTolerated ==
    /\ pc = "Aborted" => abortCause \in {"ProbeFailure", "TransactionCommitFailure"}
    /\ pc \in {"Phase1Committed", "Phase2", "Phase2Committed", "Done"} =>
          /\ "t1" \notin openTx
          /\ LET purged == purge_vp_ids
             IN \A i \in Viewports :
                   (visible[i] /\ doc0.typeOf[i] \in purged) =>
                       \E e \in log : e.id = i /\ e.phase = 1
    /\ pc \in {"Phase2Committed", "Done"} =>
          /\ "t2" \notin openTx
          /\ \A n \in DOMAIN purge_dict : \A i \in purge_dict[n] \cap Viewports :
                \/ \E e \in log : e.id = i /\ e.phase = 2 /\ e.key = n
                \/ \E e \in log : e.id = i /\ e.phase = 1 /\ ~e.err
    /\ \A i \in Viewports :
          \/ doc.typeOf[i] = doc0.typeOf[i]
          \/ \E e \in log : e.id = i /\ ~e.err
    /\ pc = "Done" => openTx = {} /\ ~tgOpen

\* C5 witness: a finished run in which every attempt of both phases raised.
C5_Witness ==
    /\ pc = "Done"
    /\ \E e \in log : e.phase = 1
    /\ \E e \in log : e.phase = 2
    /\ \A e \in log : e.err
    /\ \E i, j \in Viewports : i # j /\ Attempts(i) # {} /\ Attempts(j) # {}

\* the linked id phase 2 is about to visit does not resolve to a viewport of
\* a purge type
StaleHead ==
    /\ pc = "Phase2"
    /\ inKey
    /\ p2_items # <<>>
    /\ \/ GetElement(doc, Head(p2_items)) # "Viewport"
       \/ doc.typeOf[Head(p2_items)] \notin purge_vp_ids

\* C6: phase 2 skips a linked id that does not resolve to a viewport or whose
\* viewport is no longer of a purge type: the step changes no type, logs no
\* attempt and does not set has_error; the only warning it can add is the one
\* for the current name when has_error was already set.
C6_StaleSkipped ==
    [][StaleHead =>
          /\ doc' = doc
          /\ log' = log
          /\ has_error' => has_error
          /\ warned' # warned => has_error /\ warned' = warned \cup {vp_type_name}
          /\ pc' = "Phase2"]_vars

\* C6 witness: a finished run in which phase 1 reassigned a viewport that a
\* retained probe result holds, and phase 2 made no attempt on it.
C6_Witness ==
    /\ pc = "Done"
    /\ warned = {}
    /\ \E i \in Retained \cap Viewports :
          /\ \E e \in Attempts(i) : e.phase = 1 /\ ~e.err
          /\ \A e \in Attempts(i) : e.phase = 1

\* C7 as stated: the group is open while the probes run.
C7_Original ==
    (pc = "PlanBuilt" /\ probeIdx > 1) => tgOpen

\* C7 amended: the probes run before the group exists, each in its own
\* transaction; the group is opened after the last probe and before
\* TRANSACTION 1, and both phases run inside it.
C7_Amended ==
    /\ pc \in {"Idle", "TypesCollected", "PurgeSelected", "PlanBuilt", "Probed"}
          => ~tgOpen
    /\ tgOpen => probeIdx > Len(purge_vp_types)
    /\ abortCause = "ProbeFailure" => ~tgOpen
    /\ (openTx \cap {"t1", "t2"} # {}) => tgOpen
    /\ pc \in {"GroupStarted", "Phase1", "Phase1Committed", "Phase2",
               "Phase2Committed"} => tgOpen

\* C7 witness: phase 1 is running inside the group after a probe has run.
C7_Witness ==
    /\ pc = "Phase1"
    /\ tgOpen
    /\ "t1" \in openTx
    /\ purge_vp_type # NoId
    /\ vpIdx > 1

\* C8: from the first probe on the purge set is non-empty and the replacement
\* is a viewport type outside it; no probe, transaction, group or attempt
\* exists without such a plan.
C8_PlanInvariant ==
    (\/ pc \in {"PlanBuilt", "Probed", "GroupStarted", "Phase1", "Phase1Committed",
               "Phase2", "Phase2Committed", "Done", "Aborted"}
     \/ purge_vp_type # NoId
     \/ openTx # {}
     \/ tgOpen
     \/ log # {})
    => /\ purge_vp_types # <<>>
       /\ dest_vp_typeid \in ViewportTypeIds
       /\ dest_vp_typeid \notin purge_vp_ids

\* C8 witness: two purge types have been probed.
C8_Witness ==
    /\ pc = "PlanBuilt"
    /\ probeIdx > 2
    /\ Len(purge_vp_types) >= 2

\* C9: the set of type records never changes.
C9_TypesKept == doc.types = doc0.types

\* C9 witness: a finished run that probed two purge types and reassigned a
\* viewport.
C9_Witness ==
    /\ pc = "Done"
    /\ Len(purge_vp_types) >= 2
    /\ \E e \in log : ~e.err
    /\ purge_vp_ids \subseteq doc.types

\* C10: a second probe of the type just probed, with the document not
\* changed since, returns the ids the first probe returned.
C10_ProbeRepeatable ==
    (BetweenProbes /\ abortCause = "none") =>
        find_linked_elements(doc, purge_vp_type).ids = linked_elements

\* C10 witness: a probe returned the type and two linked viewports, one of
\* them hidden.
C10_Witness ==
    /\ BetweenProbes
    /\ abortCause = "none"
    /\ purge_vp_type \in linked_elements
    /\ \E i, j \in linked_elements \cap Viewports : i # j /\ ~visible[i]

\* the sequence is ascending by name, equal names in ascending id order
SortedByName(c) ==
    \A i, j \in 1..Len(c) :
        i < j => \/ typeName[c[i]] < typeName[c[j]]
                 \/ typeName[c[i]] = typeName[c[j]] /\ c[i] < c[j]

\* C11: when a selection is shown or has just returned, its candidate list
\* holds every candidate once, is
\* ascending by display name with equal names in collection (id) order, and
\* the second list is the first one without the purge types, so both calls
\* present the types in the same order.
C11_CandidatesSorted ==
    pc \in {"TypesCollected", "PurgeSelected", "PlanBuilt"} =>
        LET c == sorted(all_viewport_types)
        IN /\ Len(c) = Len(all_viewport_types)
           /\ Range(c) = Range(all_viewport_types)
           /\ SortedByName(c)
           /\ SortedByName(purge_vp_types)
           /\ SortedByName(ReplacementCandidates)
           /\ ReplacementCandidates = SelectSeq(c, LAMBDA x : x \notin purge_vp_ids)

\* C11 witness: sorting moved a type forward and two types share a name; the
\* second selection is about to be shown.
C11_Witness ==
    /\ pc = "PurgeSelected"
    /\ sorted(all_viewport_types) # all_viewport_types
    /\ \E t, u \in Range(ReplacementCandidates) : t # u /\ typeName[t] = typeName[u]

\* C12 as stated: until phase 2 every purge type has its own probe result in
\* purge_dict, the ids the trial delete of that type returned.
C12_Original ==
    pc \in {"Probed", "GroupStarted", "Phase1", "Phase1Committed", "Phase2"} =>
        \A t \in purge_vp_ids :
            /\ typeName[t] \in DOMAIN purge_dict
            /\ purge_dict[typeName[t]] = DeletedIds(doc0, t)

\* C13 as stated: when a commit raises after phase 1 has committed, the
\* viewports phase 1 reassigned are of the replacement type and the changes
\* are not inside a group that was left uncommitted.
C13_Original ==
    (pc = "Aborted" /\ abortCause = "TransactionCommitFailure" /\ "t1" \notin openTx) =>
        /\ \A e \in log : (e.phase = 1 /\ ~e.err) => doc.typeOf[e.id] = dest_vp_typeid
        /\ ~tgOpen

\* the outcome reported for a purge type: line 129 names the type by its name
hadErrors(t) == typeName[t] \in warned

\* C14 as stated: at Done a purge type is reported hadErrors exactly when a
\* phase 2 attempt on an id of that type's own probe result raised.
C14_Original ==
    pc = "Done" =>
        \A t \in purge_vp_ids :
            hadErrors(t) <=>
                \E e \in log : /\ e.phase = 2
                               /\ e.err
                               /\ e.key = typeName[t]
                               /\ e.id \in DeletedIds(doc0, t)

\* the steps of the script in the order of the source; Cancelled and Aborted
\* end it
Order ==
    {<<"Idle", "TypesCollected">>, <<"TypesCollected", "PurgeSelected">>,
     <<"TypesCollected", "Cancelled">>, <<"PurgeSelected", "PlanBuilt">>,
     <<"PurgeSelected", "Cancelled">>, <<"PlanBuilt", "Probed">>,
     <<"PlanBuilt", "Aborted">>, <<"Probed", "GroupStarted">>,
     <<"GroupStarted", "Phase1">>, <<"Phase1", "Phase1Committed">>,
     <<"Phase1", "Aborted">>, <<"Phase1Committed", "Phase2">>,
     <<"Phase2", "Phase2Committed">>, <<"Phase2", "Aborted">>,
     <<"Phase2Committed", "Done">>, <<"Phase2Committed", "Aborted">>}

\* C15: the script moves only along Idle, TypesCollected, (purge selected),
\* PlanBuilt, Probed, (group started, phase 1), Phase1Committed, (phase 2),
\* Phase2Committed, Done. Every purge type has been probed when Probed is
\* entered, TRANSACTION 1 is closed and has visited every viewport when
\* TRANSACTION 2 starts, TRANSACTION 2 is closed when the group commits, and
\* Cancelled is entered with no viewport reassigned.
C15_StepOrder ==
    [][pc' # pc =>
          /\ <<pc, pc'>> \in Order
          /\ pc' = "Probed" =>
                /\ probeIdx > Len(purge_vp_types)
                /\ \A t \in purge_vp_ids : typeName[t] \in DOMAIN purge_dict
                /\ log = {}
          /\ pc' = "Phase1" => openTx = {} /\ log = {}
          /\ pc' = "Phase1Committed" => vpIdx > Len(all_viewports)
          /\ pc' = "Phase2" =>
                /\ "t1" \notin openTx
                /\ \A e \in log : e.phase = 1
          /\ pc' = "Phase2Committed" => p2_keys = <<>> /\ ~inKey
          /\ pc' = "Done" => openTx = {} /\ tgOpen /\ ~tgOpen'
          /\ pc' = "Cancelled" => doc = doc0 /\ doc' = doc0 /\ log' = {}]_vars

\* C15 witness: a finished run with two probes and attempts in both phases.
C15_Witness ==
    /\ pc = "Done"
    /\ Len(purge_vp_types) >= 2
    /\ \E e \in log : e.phase = 1
    /\ \E e \in log : e.phase = 2

\* C16: once a probe has raised, the script is aborted: no group and no phase
\* transaction was started, no attempt was made and no viewport changed.
C16_ProbeFailureFatal ==
    abortCause = "ProbeFailure" =>
        /\ pc = "Aborted"
        /\ ~tgOpen
        /\ openTx \cap {"t1", "t2"} = {}
        /\ log = {}
        /\ doc = doc0

\* C16 witness: the probe of the second purge type raised after the first
\* probe had returned.
C16_Witness ==
    /\ abortCause = "ProbeFailure"
    /\ probeIdx = 2
    /\ DOMAIN purge_dict # {}

\* C17: a viewport whose type at run start is not a purge type is never
\* attempted and keeps that type.
C17_OthersUntouched ==
    LET purged == purge_vp_ids
    IN /\ \A e \in log : doc0.typeOf[e.id] \in purged
       /\ \A i \in InstIds :
             \/ i \in Viewports /\ doc.typeOf[i] = doc0.typeOf[i]
             \/ doc0.typeOf[i] \in purged

\* C17 witness: a finished run that reassigned a viewport and visited a
\* visible viewport of a type that is neither purged nor the replacement.
C17_Witness ==
    /\ pc = "Done"
    /\ \E e \in log : ~e.err
    /\ \E i \in Viewports :
          /\ visible[i]
          /\ doc.typeOf[i] \notin purge_vp_ids \cup {dest_vp_typeid}

\* C18: every viewport is of its type at run start or of the replacement
\* type; it differs from its start type only after an attempt on it
\* succeeded, and after a successful attempt it stays of the replacement type.
C18_StartOrReplacement ==
    /\ \A e \in log : e.err \/ doc.typeOf[e.id] = dest_vp_typeid
    /\ \A i \in InstIds :
          /\ i \in Viewports
          /\ \/ doc.typeOf[i] = doc0.typeOf[i]
             \/ /\ doc.typeOf[i] = dest_vp_typeid
                /\ \E e \in log : e.id = i /\ ~e.err

\* C18 witness: phase 2 has committed; one viewport was reassigned in phase 1,
\* another in phase 2 after its phase 1 attempt raised.
C18_Witness ==
    /\ pc = "Phase2Committed"
    /\ \E i, j \in Viewports :
          /\ i # j
          /\ doc.typeOf[i] = dest_vp_typeid
          /\ doc.typeOf[j] = dest_vp_typeid
          /\ \E e \in Attempts(i) : e.phase = 1 /\ ~e.err
          /\ \E e \in Attempts(j) : e.phase = 1 /\ e.err
          /\ \E e \in Attempts(j) : e.phase = 2 /\ ~e.err

\* C19 as stated: at most one transaction is open at a time, the phase
\* transactions are open only inside the group, and when the script has
\* ended (Done, Cancelled or aborted) no transaction and no group is open.
C19_Original ==
    /\ Cardinality(openTx) <= 1
    /\ (openTx \cap {"t1", "t2"} # {}) => tgOpen
    /\ pc \in {"Done", "Cancelled", "Aborted"} => openTx = {} /\ ~tgOpen
====
